---------------------------- MODULE Spec2Model ----------------------------
(***************************************************************************)
(* Model of scrape_foragidos.py: one run of main() over a page whose cards *)
(* and images are chosen nondeterministically at every poll.  The browser  *)
(* library is the environment: each call made on it either succeeds with   *)
(* some value or fails, as drawn by \E in the action that makes the call.  *)
(* Text fields of a record (nome, cidade, foto_url) are carried as tokens: *)
(* None when the code leaves them None, a tag naming their origin          *)
(* otherwise.                                                              *)
(***************************************************************************)
EXTENDS Integers, Sequences, FiniteSets, TLC

\* ---------------------------------------------------------------- bounds
\* Largest element count document.querySelectorAll(...).length reports.
MaxCount == 1
\* Largest number of elements a locator(...).count() reports.
MaxN == 2

\* ---------------------------------------------------- program constants
\* auto_scroll_until_stable(page, min_rounds=6, max_rounds=90, ...)
min_rounds == 6
max_rounds == 90
\* "if stable >= 5 and i >= min_rounds"
StableNeeded == 5
\* the seven candidate selectors of try_accept_cookies
NumCookieSels == 7

None == "None"

\* the keys of the dict literal appended to rows, in the order written
RowKeys == <<"ordem", "nome", "cidade", "foto_url">>

VARIABLES
  pc,            \* position of main()
  sel,           \* try_accept_cookies: index of the selector being tried
  accepted,      \* a consent click succeeded ("[cookies] clique em ...")
  waitRes,       \* outcome of page.wait_for_selector
  i,             \* auto_scroll_until_stable: loop variable (-1: not bound yet)
  last,          \* auto_scroll_until_stable: last
  stable,        \* auto_scroll_until_stable: stable
  rounds,        \* history: number of loop bodies executed
  polls,         \* history: the most recent StableNeeded+1 values of cards
  total_cards,   \* main: total_cards (-1: not assigned yet)
  n,             \* collect_*: n
  idx,           \* collect_*: loop variable, as the number of items done
  rows,          \* collect_*: rows
  all_rows,      \* main: all_rows
  primaryYield,  \* history: len of what collect_from_cards returned (-1: not run to its end, 0 also when skipped)
  fallbackCalls, \* history: number of calls of collect_from_images
  csv,           \* content of foragidos.csv: header and number of data rows
  files,         \* history: files written, in order
  ctxClosed,     \* ctx.close() was executed
  browserClosed, \* browser.close() was executed
  pwStopped,     \* the "with sync_playwright()" block was left
  trace          \* history: pipeline stages in the order they were entered

vars == <<pc, sel, accepted, waitRes, i, last, stable, rounds, polls,
          total_cards, n, idx, rows, all_rows, primaryYield, fallbackCalls,
          csv, files, ctxClosed, browserClosed, pwStopped, trace>>

scrollVars == <<i, last, stable, rounds, polls>>
collectVars == <<n, idx, rows>>
closeVars == <<ctxClosed, browserClosed, pwStopped>>
consentVars == <<sel, accepted>>

Counts == 0..MaxCount

NoCsv == [written |-> FALSE, header |-> <<>>, nrows |-> 0]

\* ---------------------------------------------------------------- stages
StageOf(p) ==
  CASE p = "goto" -> "navigate"
    [] p = "cookies" -> "consent"
    [] p = "wait" -> "wait"
    [] p \in {"scroll_loop", "scroll_final"} -> "scroll"
    [] p \in {"primary", "cards_loop"} -> "primary"
    [] p \in {"fallback", "imgs_loop"} -> "fallback"
    [] p \in {"csv", "debug"} -> "persist"
    [] p \in {"close", "done"} -> "close"
    [] OTHER -> "none"

\* main() moves on to position p; a stage is entered when the position
\* crosses into it.
Goto(p) ==
  /\ pc' = p
  /\ trace' = IF StageOf(p) # StageOf(pc) THEN Append(trace, StageOf(p)) ELSE trace

\* An exception propagates out of main(): the frames are unwound and the
\* "with sync_playwright()" block is left; line 176 is not executed.
Abort ==
  /\ pc' = "aborted"
  /\ pwStopped' = TRUE
  /\ i' = -1 /\ last' = -1 /\ stable' = 0 /\ polls' = <<>>
  /\ n' = 0 /\ idx' = 0 /\ rows' = <<>>
  /\ sel' = 0
  /\ UNCHANGED <<accepted, rounds, total_cards, all_rows, primaryYield,
                 fallbackCalls, csv, files, ctxClosed, browserClosed, trace>>

Init ==
  /\ pc = "goto"
  /\ sel = 0 /\ accepted = FALSE /\ waitRes = "none"
  /\ i = -1 /\ last = -1 /\ stable = 0 /\ rounds = 0 /\ polls = <<>>
  /\ total_cards = -1
  /\ n = 0 /\ idx = 0 /\ rows = <<>>
  /\ all_rows = <<>>
  /\ primaryYield = -1 /\ fallbackCalls = 0
  /\ csv = NoCsv /\ files = <<>>
  /\ ctxClosed = FALSE /\ browserClosed = FALSE /\ pwStopped = FALSE
  /\ trace = <<"navigate">>

\* ------------------------------------------------------------- navigate
\* page.goto(URL, ...): raises on a navigation failure or timeout.
Navigate ==
  /\ pc = "goto"
  /\ \E ok \in BOOLEAN :
       IF ok
         THEN /\ Goto("cookies")
              /\ sel' = 1
              /\ UNCHANGED <<accepted, waitRes, scrollVars, total_cards, collectVars,
                             all_rows, primaryYield, fallbackCalls, csv, files, closeVars>>
         ELSE Abort /\ UNCHANGED waitRes

\* -------------------------------------------------------------- consent
\* One round of the for loop of try_accept_cookies: click the candidate;
\* on success break, on any exception pass on to the next candidate.
ClickBreaks(ok) == ok

TryCookie ==
  /\ pc = "cookies"
  /\ \E ok \in BOOLEAN :
       /\ accepted' = (accepted \/ ok)
       /\ IF ClickBreaks(ok) \/ sel = NumCookieSels
            THEN Goto("wait") /\ sel' = 0
            ELSE sel' = sel + 1 /\ UNCHANGED <<pc, trace>>
  /\ UNCHANGED <<waitRes, scrollVars, total_cards, collectVars, all_rows,
                 primaryYield, fallbackCalls, csv, files, closeVars>>

\* ----------------------------------------------------- wait for content
\* variant: the except clause is missing, so the timeout propagates
WaitCaught_uncaught(outcome) == FALSE

\* try: page.wait_for_selector(...) except PWTimeout: print warning.
\* Only the timeout is caught; any other error propagates.
WaitCaught(outcome) == outcome = "timeout"

WaitForCards ==
  /\ pc = "wait"
  /\ \E outcome \in {"attached", "timeout", "error"} :
       /\ waitRes' = outcome
       /\ IF outcome = "attached" \/ WaitCaught(outcome)
            THEN /\ Goto("scroll_loop")
                 /\ UNCHANGED <<consentVars, scrollVars, total_cards, collectVars, all_rows,
                                primaryYield, fallbackCalls, csv, files, closeVars>>
            ELSE Abort

\* ------------------------------------------------------ scroll stabilizer
\* js_count: the length the page reports, or 0 when page.evaluate raises.
js_count(ok, len) == IF ok THEN len ELSE 0

\* variant: stable is never reset when the count changes
NextStable_noreset(st, cards, prev) == st + 1

\* "stable = stable + 1 if cards == last else 0"
NextStable(st, cards, prev) == IF cards = prev THEN st + 1 ELSE 0

\* variant: the floor on the round index is dropped
LoopBreak_nofloor(st, ii) == st >= StableNeeded

\* "if stable >= 5 and i >= min_rounds: break"
LoopBreak(st, ii) == st >= StableNeeded /\ ii >= min_rounds

\* variant: the range yields one value more
RangeExhausted_late(ii) == ii = max_rounds

\* "for i in range(max_rounds)": ii was the last value the range yields
RangeExhausted(ii) == ii = max_rounds - 1

\* the most recent StableNeeded+1 polled values
Keep(s) ==
  IF Len(s) > StableNeeded + 1 THEN SubSeq(s, Len(s) - StableNeeded, Len(s)) ELSE s

\* One round of the for loop: poll the card count (the two image counts
\* polled alongside are only printed), update stable and last, scroll down,
\* pause, and leave the loop by break or by exhaustion of the range.
ScrollRound ==
  /\ pc = "scroll_loop"
  /\ \E ok \in BOOLEAN, len \in Counts :
       LET ii == i + 1
           cards == js_count(ok, len)
           st == NextStable(stable, cards, last)
       IN /\ i' = ii
          /\ stable' = st
          /\ last' = cards
          /\ rounds' = rounds + 1
          /\ polls' = Keep(Append(polls, cards))
          /\ IF LoopBreak(st, ii) \/ RangeExhausted(ii)
               THEN Goto("scroll_final")
               ELSE UNCHANGED <<pc, trace>>
  /\ UNCHANGED <<consentVars, waitRes, total_cards, collectVars, all_rows,
                 primaryYield, fallbackCalls, csv, files, closeVars>>

\* After the loop: scroll to the bottom, pause, and return a fresh count,
\* which main() assigns to total_cards.
FinalScroll ==
  /\ pc = "scroll_final"
  /\ \E ok \in BOOLEAN, len \in Counts : total_cards' = js_count(ok, len)
  /\ Goto("primary")
  /\ UNCHANGED <<consentVars, waitRes, scrollVars, collectVars, all_rows,
                 primaryYield, fallbackCalls, csv, files, closeVars>>

\* ------------------------------------------------------ primary extractor
\* "if total_cards > 0: all_rows = collect_from_cards(page)"
PrimaryRuns(total) == total > 0

\* main() decides on the primary extractor; when it runs, collect_from_cards
\* starts with rows = [] and n = cards.count().  The frame of
\* auto_scroll_until_stable is gone by now.
Primary ==
  /\ pc = "primary"
  /\ i' = -1 /\ last' = -1 /\ stable' = 0 /\ rounds' = 0 /\ polls' = <<>>
  /\ IF PrimaryRuns(total_cards)
       THEN /\ \E cnt \in 0..MaxN : n' = cnt
            /\ idx' = 0 /\ rows' = <<>>
            /\ Goto("cards_loop")
            /\ UNCHANGED primaryYield
       ELSE /\ primaryYield' = 0
            /\ Goto("fallback")
            /\ UNCHANGED collectVars
  /\ UNCHANGED <<consentVars, waitRes, total_cards, all_rows, fallbackCalls,
                 csv, files, closeVars>>

\* nome of a card: the image title in title case; without a title the
\* longest upper-case line, else the first line left after the label
\* filter, else None.
CardNome(title, line) == IF title THEN "title" ELSE IF line THEN "line" ELSE None
Cidade(city) == IF city THEN "cidade" ELSE None
FotoUrl(src) == IF src THEN "url" ELSE None

\* the dict appended for card number k (0-based)
CardRow(k, src, title, city, line) ==
  [ordem |-> k + 1, nome |-> CardNome(title, line), cidade |-> Cidade(city),
   foto_url |-> FotoUrl(src)]

\* One round of the loop of collect_from_cards; card.inner_text(timeout=8000)
\* may raise, and nothing catches it.
CardRound ==
  /\ pc = "cards_loop"
  /\ idx < n
  /\ \E txtOk \in BOOLEAN :
       IF txtOk
         THEN /\ \E src \in BOOLEAN, title \in BOOLEAN, city \in BOOLEAN, line \in BOOLEAN :
                   rows' = Append(rows, CardRow(idx, src, title, city, line))
              /\ idx' = idx + 1
              /\ UNCHANGED <<pc, trace, consentVars, waitRes, scrollVars, total_cards, n,
                             all_rows, primaryYield, fallbackCalls, csv, files, closeVars>>
         ELSE Abort /\ UNCHANGED waitRes

\* collect_from_cards returns rows; main() assigns them to all_rows.
CardsReturn ==
  /\ pc = "cards_loop"
  /\ idx = n
  /\ all_rows' = rows
  /\ primaryYield' = Len(rows)
  /\ n' = 0 /\ idx' = 0 /\ rows' = <<>>
  /\ Goto("fallback")
  /\ UNCHANGED <<consentVars, waitRes, scrollVars, total_cards, fallbackCalls,
                 csv, files, closeVars>>

\* ----------------------------------------------------- fallback extractor
\* variant: the fallback runs whatever the primary returned
FallbackNeeded_always(r) == TRUE

\* "if not all_rows: all_rows = collect_from_images(page)"
FallbackNeeded(r) == Len(r) = 0

Fallback ==
  /\ pc = "fallback"
  /\ IF FallbackNeeded(all_rows)
       THEN /\ fallbackCalls' = fallbackCalls + 1
            /\ \E cnt \in 0..MaxN : n' = cnt
            /\ idx' = 0 /\ rows' = <<>>
            /\ Goto("imgs_loop")
       ELSE /\ Goto("csv")
            /\ UNCHANGED <<fallbackCalls, collectVars>>
  /\ UNCHANGED <<consentVars, waitRes, scrollVars, total_cards, all_rows,
                 primaryYield, csv, files, closeVars>>

\* "if not (nome or cidade or foto_url): continue"
Discarded(src, title, city) == ~(title \/ city \/ src)

\* the dict appended for candidate image number k (0-based)
ImageRow(k, src, title, city) ==
  [ordem |-> k + 1, nome |-> IF title THEN "title" ELSE None,
   cidade |-> Cidade(city), foto_url |-> FotoUrl(src)]

\* One round of the loop of collect_from_images.
ImageRound ==
  /\ pc = "imgs_loop"
  /\ idx < n
  /\ \E src \in BOOLEAN, title \in BOOLEAN, city \in BOOLEAN :
       rows' = IF Discarded(src, title, city)
                 THEN rows
                 ELSE Append(rows, ImageRow(idx, src, title, city))
  /\ idx' = idx + 1
  /\ UNCHANGED <<pc, trace, consentVars, waitRes, scrollVars, total_cards, n,
                 all_rows, primaryYield, fallbackCalls, csv, files, closeVars>>

\* variant: an empty fallback result sends the run back to scrolling
AfterFallback_retry(r) == IF Len(r) = 0 THEN "scroll_loop" ELSE "csv"

\* where main() continues once the fallback has returned
AfterFallback(r) == "csv"

ImagesReturn ==
  /\ pc = "imgs_loop"
  /\ idx = n
  /\ all_rows' = rows
  /\ n' = 0 /\ idx' = 0 /\ rows' = <<>>
  /\ Goto(AfterFallback(rows))
  /\ UNCHANGED <<consentVars, waitRes, scrollVars, total_cards, primaryYield,
                 fallbackCalls, csv, files, closeVars>>

\* ---------------------------------------------------------------- persist
\* pd.DataFrame(all_rows): the columns are the keys of the dicts; a
\* DataFrame built from an empty list has no columns.
Columns(r) == IF Len(r) = 0 THEN <<>> ELSE RowKeys

\* variant: the diagnostics are written on every run
DebugNeeded_always(r) == TRUE

\* "if len(all_rows) == 0:" write debug.html and debug.png
DebugNeeded(r) == Len(r) = 0

\* pd.DataFrame(all_rows).to_csv(CSV_NAME, index=False, encoding="utf-8")
WriteCsv ==
  /\ pc = "csv"
  /\ \E ok \in BOOLEAN :
       IF ok
         THEN /\ csv' = [written |-> TRUE, header |-> Columns(all_rows),
                         nrows |-> Len(all_rows)]
              /\ files' = Append(files, "csv")
              /\ Goto(IF DebugNeeded(all_rows) THEN "debug" ELSE "close")
              /\ UNCHANGED <<consentVars, waitRes, scrollVars, total_cards, collectVars,
                             all_rows, primaryYield, fallbackCalls, closeVars>>
         ELSE Abort /\ UNCHANGED waitRes

\* debug.html is written, then debug.png; either write may raise.
WriteDebug ==
  /\ pc = "debug"
  /\ \E htmlOk \in BOOLEAN, pngOk \in BOOLEAN :
       IF htmlOk /\ pngOk
         THEN /\ files' = files \o <<"debug.html", "debug.png">>
              /\ Goto("close")
              /\ UNCHANGED <<consentVars, waitRes, scrollVars, total_cards, collectVars,
                             all_rows, primaryYield, fallbackCalls, csv, closeVars>>
         ELSE /\ pc' = "aborted"
              /\ pwStopped' = TRUE
              /\ files' = IF htmlOk THEN Append(files, "debug.html") ELSE files
              /\ UNCHANGED <<consentVars, waitRes, scrollVars, total_cards, collectVars,
                             all_rows, primaryYield, fallbackCalls, csv, ctxClosed,
                             browserClosed, trace>>

\* ------------------------------------------------------------------ close
\* "ctx.close(); browser.close()", then the with block is left.
Close ==
  /\ pc = "close"
  /\ ctxClosed' = TRUE /\ browserClosed' = TRUE /\ pwStopped' = TRUE
  /\ Goto("done")
  /\ UNCHANGED <<consentVars, waitRes, scrollVars, total_cards, collectVars,
                 all_rows, primaryYield, fallbackCalls, csv, files>>

Next ==
  \/ Navigate
  \/ TryCookie
  \/ WaitForCards
  \/ ScrollRound
  \/ FinalScroll
  \/ Primary
  \/ CardRound
  \/ CardsReturn
  \/ Fallback
  \/ ImageRound
  \/ ImagesReturn
  \/ WriteCsv
  \/ WriteDebug
  \/ Close

Spec == Init /\ [][Next]_vars

\* ================================================================ claims

Last(s) == s[Len(s)]
AllEqual(s) == \A k \in 1..Len(s) : s[k] = s[1]
Wrote(f) == \E k \in 1..Len(files) : files[k] = f

\* ---- C1
\* C1: the scroll loop never executes more than max_rounds (90) bodies, and
\* once max_rounds bodies have been executed the loop has been left,
\* whatever counts the polls report (0 included, for a selector that never
\* matches or a poll that fails).
C1_BoundedRounds ==
  /\ rounds <= max_rounds
  /\ pc = "scroll_loop" => rounds < max_rounds

\* the loop has been left by the cap, after 90 rounds
C1_Witness == pc = "scroll_final" /\ rounds = max_rounds

\* ---- C2
\* the last StableNeeded+1 polls reported the same count: StableNeeded
\* consecutive comparisons found it unchanged
UnchangedRun == Len(polls) = StableNeeded + 1 /\ AllEqual(polls)

\* the stop condition after round number rounds (round index rounds - 1),
\* stated on the history of the polls
StopDue ==
  \/ UnchangedRun /\ rounds - 1 >= min_rounds
  \/ rounds = max_rounds

\* C2: the loop is left at the first round after which the count has been
\* unchanged for 5 consecutive checks and the round index has reached
\* min_rounds, or after round max_rounds: it has been left only if that
\* condition holds, and it is still running only if it does not.
C2_StopsExactly ==
  /\ pc = "scroll_final" => StopDue
  /\ pc = "scroll_loop" /\ rounds > 0 => ~StopDue

\* the loop stopped by stability, later than the floor and before the cap
C2_Witness ==
  pc = "scroll_final" /\ rounds > min_rounds + 1 /\ rounds < max_rounds /\ UnchangedRun

\* ---- C3
\* C3: the k-th record of the persisted sequence has ordem = k.
C3_DenseOrdem ==
  csv.written => \A k \in 1..Len(all_rows) : all_rows[k].ordem = k

\* ---- C4
\* C4: collect_from_images is never called twice; it has been called
\* exactly once when the primary yielded no record (skipped or empty) and the
\* run is past the fallback decision, and never when the primary yielded a
\* record.
C4_FallbackOnce ==
  /\ fallbackCalls <= 1
  /\ primaryYield > 0 => fallbackCalls = 0
  /\ primaryYield = 0 /\ pc \in {"imgs_loop", "csv", "debug", "close", "done"}
       => fallbackCalls = 1
  /\ primaryYield = -1 => fallbackCalls = 0

\* a finished run whose primary extractor ran and returned nothing
C4_Witness ==
  pc = "done" /\ total_cards > 0 /\ primaryYield = 0 /\ fallbackCalls = 1

\* ---- C5
\* C5: the CSV written always starts with the header ordem,nome,cidade,foto_url.
C5_HeaderAlways == csv.written => csv.header = RowKeys

\* ---- C6
\* C6: when main() has run to its end the CSV holds the records and
\* debug.html and debug.png have been written exactly if there are no
\* records; no diagnostic file is ever written before the CSV.
C6_DebugIffEmpty ==
  /\ pc = "done" =>
       /\ csv.written /\ csv.nrows = Len(all_rows)
       /\ (Wrote("debug.html") /\ Wrote("debug.png")) <=> Len(all_rows) = 0
       /\ (Wrote("debug.html") \/ Wrote("debug.png")) <=> Len(all_rows) = 0
  /\ Len(files) > 0 => files[1] = "csv"

\* a run that ends normally with no records and the diagnostics written
C6_Witness ==
  pc = "done" /\ all_rows = <<>> /\ files = <<"csv", "debug.html", "debug.png">>

\* ---- C7
\* C7: whenever a run has ended, normally or by a failure after launch, the
\* browser context and the browser have been closed.
C7_ClosedOnEveryExit ==
  pc \in {"done", "aborted"} => ctxClosed /\ browserClosed

\* ---- C8
\* C8: no run is aborted in the consent stage, and none in the wait stage
\* by a timeout; after a timed-out wait the scroll stage is entered; a run
\* that ends normally has written the CSV; and no further candidate is
\* clicked once a consent click has succeeded.
C8_AdvisoryTimeouts ==
  /\ pc = "aborted" => Last(trace) # "consent"
  /\ pc = "aborted" /\ Last(trace) = "wait" => waitRes = "error"
  /\ waitRes = "timeout" => \E k \in 1..Len(trace) : trace[k] = "scroll"
  /\ pc = "done" => csv.written
  /\ pc = "cookies" => ~accepted

\* every consent click failed, the wait timed out, and the run ended
\* normally with the CSV written
C8_Witness ==
  pc = "done" /\ ~accepted /\ waitRes = "timeout" /\ csv.written

\* ---- C9
Rank(st) ==
  CASE st = "navigate" -> 1
    [] st = "consent" -> 2
    [] st = "wait" -> 3
    [] st = "scroll" -> 4
    [] st = "primary" -> 5
    [] st = "fallback" -> 6
    [] st = "persist" -> 7
    [] st = "close" -> 8
    [] OTHER -> 0

\* C9: the stages are entered in the order navigate, consent, wait, scroll,
\* primary, fallback, persist, each at most once and never after a later
\* one; the run is always in the stage entered last, so persistence is not
\* entered while an extractor is still running.
C9_LinearPipeline ==
  /\ \A k \in 1..(Len(trace) - 1) : Rank(trace[k]) < Rank(trace[k + 1])
  /\ pc # "aborted" => StageOf(pc) = Last(trace)
  /\ pc \in {"cards_loop", "imgs_loop"} => ~csv.written

\* a finished run that went through every stage
C9_Witness ==
  /\ pc = "done"
  /\ trace = <<"navigate", "consent", "wait", "scroll", "primary", "fallback",
               "persist", "close">>
  /\ fallbackCalls = 1

\* ---- C10
\* C10: the loop is left after at least 7 rounds; when it is left before
\* round 90 the last 6 polled counts are equal; and the count returned is
\* polled after the loop, leaving last as the loop's final poll.
C10_SevenRoundsSixEqual ==
  /\ pc \in {"scroll_final", "primary"} =>
       /\ rounds >= 7
       /\ rounds < 90 => Len(polls) = 6 /\ AllEqual(polls)
       /\ last = Last(polls)
  /\ pc = "primary" => total_cards \in Counts

\* the loop was left after exactly 7 rounds of a constant count, and the
\* count returned differs from the last one polled in the loop
C10_Witness ==
  pc = "primary" /\ rounds = 7 /\ AllEqual(polls) /\ total_cards # last

=============================================================================
